---------------------------- MODULE Spec2Model ----------------------------
(***************************************************************************)
(* The StockAnalysis pipeline of src/stock_analysis.py (the revision that  *)
(* src/GUI.py imports): collect_data, preprocess_data, build_models,       *)
(* evaluate_models, buy_or_sell and execute_trades, as a state machine     *)
(* over one StockAnalysis object; and the entry point src/main.py with the *)
(* merge of src/data_formating.py (second state machine, MainSpec).        *)
(*                                                                         *)
(* Numbers.  A float is modelled by an exact extended rational <<n, d>>    *)
(* with d >= 0 in lowest terms: d > 0 is the finite value n/d, <<1,0>> and *)
(* <<-1,0>> are +inf and -inf, <<0,0>> is NaN.  Rounding of IEEE doubles   *)
(* is not modelled.                                                        *)
(*                                                                         *)
(* Tables.  A CSV table keeps its column set, its "Company Name" column    *)
(* (the object-dtype column the decisions are keyed by) and its CLOSE      *)
(* column (the numeric column that is imputed, scaled, clipped, fitted and *)
(* priced).  The other numeric columns go through the same per-column      *)
(* operators as CLOSE and are read by nothing downstream.                  *)
(***************************************************************************)
EXTENDS Integers, Sequences, FiniteSets, TLC

VARIABLES
    stock_data_paths,   \* self.stock_data_paths: the tables behind the paths
    dfs,                \* self.dfs
    models,             \* self.models
    decisions,          \* what buy_or_sell returned, if it was the latest call
    trades,             \* what execute_trades returned, if it was the latest call
    skips,              \* the paths collect_data has printed a skip message for
    last,               \* the latest call and how it ended
    ncollect,           \* number of collect_data calls made
    rng,                \* outcome of the forest seeded with random_state=42
                        \* (0 until the first forest is grown)
    nanOk,              \* whether the installed forest accepts NaN features
    pc,                 \* main.py: the statement the main thread is at
    file_thread,        \* main.py: state of file_thread
    html_copy_thread,   \* main.py: state of html_copy_thread
    equities_csv,       \* the downloaded table OUTPUT_DIR/equities.csv
    table_csv,          \* the scraped table OUTPUT_DIR/table.csv
    files,              \* the per-company files of the merge's output_dir
    present,            \* per symbol, the merges that found it in both tables
    runs                \* number of launches of main.py

pipelineVars == <<stock_data_paths, dfs, models, decisions, trades, skips,
                  last, ncollect, rng, nanOk>>

mainVars == <<pc, file_thread, html_copy_thread, equities_csv, table_csv,
              files, present, runs>>

vars == <<pipelineVars, mainVars>>

---------------------------------------------------------------------------
(* Bounds of the model *)

MaxPaths == 2

MaxCollect == 2

MaxPasses == 2

MaxRuns == 2

---------------------------------------------------------------------------
(* Extended rationals *)

Abs(n) == IF n < 0 THEN -n ELSE n

Sgn(n) == IF n < 0 THEN -1 ELSE IF n > 0 THEN 1 ELSE 0

RECURSIVE GCD(_, _)
GCD(a, b) == IF b = 0 THEN a ELSE GCD(b, a % b)

Norm(n, d) ==
    IF d = 0 THEN <<Sgn(n), 0>>
    ELSE LET s == IF d < 0 THEN -1 ELSE 1
             g == GCD(Abs(n), Abs(d))
         IN  <<(s * n) \div g, (s * d) \div g>>

NaN == <<0, 0>>

RInt(n) == <<n, 1>>

Zero == <<0, 1>>

IsNaN(a) == a = NaN

IsFinite(a) == a[2] # 0

RNeg(a) == <<-a[1], a[2]>>

RAdd(a, b) ==
    IF IsNaN(a) \/ IsNaN(b) THEN NaN
    ELSE IF IsFinite(a) /\ IsFinite(b)
         THEN Norm(a[1] * b[2] + b[1] * a[2], a[2] * b[2])
    ELSE IF ~IsFinite(a) /\ ~IsFinite(b)
         THEN (IF a = b THEN a ELSE NaN)
    ELSE IF IsFinite(a) THEN b ELSE a

RSub(a, b) == RAdd(a, RNeg(b))

RMul(a, b) == Norm(a[1] * b[1], a[2] * b[2])

\* IEEE division: x/0 is +-inf, 0/0 is NaN, nothing raises.
RDiv(a, b) ==
    IF IsNaN(a) \/ IsNaN(b) THEN NaN
    ELSE IF b = Zero THEN Norm(a[1], 0)
    ELSE IF ~IsFinite(b) THEN (IF IsFinite(a) THEN Zero ELSE NaN)
    ELSE Norm(a[1] * b[2] * Sgn(b[1]), a[2] * Abs(b[1]))

\* a < b; every comparison with NaN is false.
RLt(a, b) ==
    IF IsNaN(a) \/ IsNaN(b) THEN FALSE
    ELSE IF IsFinite(a) /\ IsFinite(b) THEN a[1] * b[2] < b[1] * a[2]
    ELSE IF ~IsFinite(a) THEN a[1] < 0 /\ b # a
    ELSE b[1] > 0

RLe(a, b) == ~IsNaN(a) /\ ~IsNaN(b) /\ (a = b \/ RLt(a, b))

RGe(a, b) == RLe(b, a)

RGt(a, b) == RLt(b, a)

RAbs(a) == <<Abs(a[1]), a[2]>>

---------------------------------------------------------------------------
(* Column operators (pandas Series semantics, NaN skipped by reductions) *)

NotNaN(s) == SelectSeq(s, LAMBDA v : ~IsNaN(v))

RECURSIVE Insert(_, _)
Insert(v, s) ==
    IF s = <<>> THEN <<v>>
    ELSE IF RLe(v, Head(s)) THEN <<v>> \o s
    ELSE <<Head(s)>> \o Insert(v, Tail(s))

RECURSIVE SortR(_)
SortR(s) == IF s = <<>> THEN <<>> ELSE Insert(Head(s), SortR(Tail(s)))

RECURSIVE SumR(_)
SumR(s) == IF s = <<>> THEN Zero ELSE RAdd(Head(s), SumR(Tail(s)))

\* The qn/qd quantile of the sorted defined values v, by linear
\* interpolation between order statistics; NaN when there is none.
Interpolate(v, qn, qd) ==
    IF Len(v) = 0 THEN NaN
    ELSE LET lo  == (qn * (Len(v) - 1)) \div qd
             rem == (qn * (Len(v) - 1)) % qd
         IN  IF rem = 0 THEN v[lo + 1]
             ELSE RAdd(v[lo + 1],
                       RMul(Norm(rem, qd), RSub(v[lo + 2], v[lo + 1])))

\* Series.quantile(qn/qd).
Quantile(s, qn, qd) == Interpolate(SortR(NotNaN(s)), qn, qd)

Median(s) == Quantile(s, 1, 2)

\* Series.min() / Series.max(): NaN when no defined value is left.
ColMin(s) == Interpolate(SortR(NotNaN(s)), 0, 1)

ColMax(s) == Interpolate(SortR(NotNaN(s)), 1, 1)

---------------------------------------------------------------------------
(* Input tables *)

RequiredHeaders ==
    {"Company Name", "Series", "OPEN", "HIGH", "LOW", "CLOSE", "LAST",
     "PREVCLOSE", "TOTTRDQTY", "TOTTRDVAL", "TIMESTAMP", "TOTALTRADES",
     "ISIN", "Current Price", "S3", "S2", "S1", "Pivot", "R1", "R2", "R3"}

\* Company names in the order LabelEncoder sorts them.
CompanyNames == <<"ACME", "BETA", "CASH", "DUST", "EROS", "FLUX">>

Table(name, columns, close) ==
    [ name     |-> name,
      columns  |-> columns,
      close    |-> [i \in 1..Len(close) |-> RInt(close[i])],
      readable |-> TRUE ]

\* A path pd.read_csv cannot read at all (no such file): the call raises.
Unreadable(name) == [Table(name, {}, <<>>) EXCEPT !.readable = FALSE]

\* A missing CLOSE cell of FLUX, written -1 below, is read as NaN.
Tables ==
    { Table("ACME", RequiredHeaders, <<10, 20, 30, 40, 50, 60>>),
      Table("BETA", RequiredHeaders, <<30, 20, 10>>),
      Table("CASH", RequiredHeaders, <<7, 7, 7, 7, 7>>),
      Table("DUST", RequiredHeaders, <<>>),
      Table("EROS", RequiredHeaders \ {"ISIN"}, <<10, 20, 30, 40, 50, 60>>),
      [ Table("FLUX", RequiredHeaders, <<10, -1, 12, 13, 100, 12>>)
          EXCEPT !.close[2] = NaN ],
      Unreadable("GONE") }

PathLists == UNION { [1..n -> Tables] : n \in 1..MaxPaths }

---------------------------------------------------------------------------
(* collect_data *)

\* pd.read_csv: one DataFrame per table.  `passes` and `pre` are history
\* fields: the number of preprocess_data passes over the frame, and its
\* CLOSE column as imputed (before scaling) in the latest pass.
ReadCsv(t) ==
    [ src       |-> t.name,
      nameDtype |-> "object",
      nameStr   |-> [i \in 1..Len(t.close) |-> t.name],
      nameNum   |-> <<>>,
      close     |-> t.close,
      hasMA     |-> FALSE,
      ma5       |-> <<>>,
      passes    |-> 0,
      pre       |-> <<>> ]

\* Mutant of HasRequiredHeaders: any() where the code has all().
HasAnyRequiredHeader(t) == \E header \in RequiredHeaders : header \in t.columns

HasRequiredHeaders(t) == \A header \in RequiredHeaders : header \in t.columns

\* The first path pd.read_csv raises on, 0 when every path can be read.
FirstUnreadable(paths) ==
    LET bad == {i \in 1..Len(paths) : ~paths[i].readable}
    IN  IF bad = {} THEN 0 ELSE CHOOSE i \in bad : \A j \in bad : i <= j

\* The number of iterations the loop of collect_data completes: the
\* exception of read_csv is not caught and ends the loop and the call.
Iterations(paths) ==
    IF FirstUnreadable(paths) = 0 THEN Len(paths)
    ELSE FirstUnreadable(paths) - 1

\* The loop of collect_data over paths[1..k], from the frames `acc`.
RECURSIVE CollectFrames(_, _, _)
CollectFrames(paths, k, acc) ==
    IF k = 0 THEN acc
    ELSE LET before == CollectFrames(paths, k - 1, acc)
         IN  IF HasRequiredHeaders(paths[k])
             THEN Append(before, ReadCsv(paths[k]))
             ELSE before

RECURSIVE CollectSkips(_, _, _)
CollectSkips(paths, k, acc) ==
    IF k = 0 THEN acc
    ELSE LET before == CollectSkips(paths, k - 1, acc)
         IN  IF HasRequiredHeaders(paths[k])
             THEN before
             ELSE Append(before, k)

\* The empty mapping: also the value of `decisions` and `trades` while the
\* latest call is not the one that returns them.
NoMapping == [k \in {} |-> Zero]

\* How a call ended: normally or with an exception; `printed` counts the
\* lines evaluate_models printed, `threshold` is buy_or_sell's argument.
Ok(op) ==
    [op |-> op, result |-> "ok", exc |-> "", printed |-> 0, threshold |-> Zero]

Raised(op, exc) ==
    [op |-> op, result |-> "raise", exc |-> exc, printed |-> 0,
     threshold |-> Zero]

collect_data ==
    /\ ncollect < MaxCollect
    /\ dfs' = CollectFrames(stock_data_paths, Iterations(stock_data_paths), dfs)
    /\ skips' = CollectSkips(stock_data_paths, Iterations(stock_data_paths),
                             skips)
    /\ ncollect' = ncollect + 1
    /\ last' = IF FirstUnreadable(stock_data_paths) = 0
               THEN Ok("collect_data")
               ELSE Raised("collect_data", "FileNotFoundError")
    /\ decisions' = NoMapping
    /\ trades' = NoMapping
    /\ UNCHANGED <<stock_data_paths, models, rng, nanOk>>
    /\ UNCHANGED mainVars

---------------------------------------------------------------------------
(* preprocess_data *)

Window == 5

FillNa(col, m) == [i \in 1..Len(col) |-> IF IsNaN(col[i]) THEN m ELSE col[i]]

\* df[cols].fillna(df[cols].median()), one column.
Impute(col) == FillNa(col, Median(col))

Rank(name) == CHOOSE r \in 1..Len(CompanyNames) : CompanyNames[r] = name

\* LabelEncoder().fit_transform: the index of each value among the sorted
\* distinct values of the column.
LabelEncode(col) ==
    LET ranks == {Rank(col[i]) : i \in 1..Len(col)}
    IN  [i \in 1..Len(col) |->
            Cardinality({r \in ranks : r < Rank(col[i])})]

\* df['CLOSE'].rolling(window=5).mean(): NaN until 5 rows are in the window
\* and whenever a value of the window is NaN.
\* Mutant of RollingMean: the window starts one row late.
RollingMeanShortWindow(col) ==
    [i \in 1..Len(col) |->
        IF i < Window THEN NaN
        ELSE RDiv(SumR(SubSeq(col, i - Window + 2, i)), RInt(Window))]

RollingMean(col) ==
    [i \in 1..Len(col) |->
        IF i < Window THEN NaN
        ELSE RDiv(SumR(SubSeq(col, i - Window + 1, i)), RInt(Window))]

Rescale(col, lo, hi) ==
    [i \in 1..Len(col) |-> RDiv(RSub(col[i], lo), RSub(hi, lo))]

\* (x - x.min()) / (x.max() - x.min()), one column.
MinMaxScale(col) == Rescale(col, ColMin(col), ColMax(col))

\* np.clip(x, lo, hi) = minimum(maximum(x, lo), hi); NaN propagates.
Clip(x, lo, hi) ==
    IF IsNaN(x) \/ IsNaN(lo) \/ IsNaN(hi) THEN NaN
    ELSE LET m == IF RLt(x, lo) THEN lo ELSE x
         IN  IF RLt(hi, m) THEN hi ELSE m

\* x.quantile(0.25) - 1.5 * (x.quantile(0.75) - x.quantile(0.25))
LowerFence(col) ==
    RSub(Quantile(col, 1, 4),
         RMul(<<3, 2>>, RSub(Quantile(col, 3, 4), Quantile(col, 1, 4))))

\* x.quantile(0.75) + 1.5 * (x.quantile(0.75) - x.quantile(0.25))
UpperFence(col) ==
    RAdd(Quantile(col, 3, 4),
         RMul(<<3, 2>>, RSub(Quantile(col, 3, 4), Quantile(col, 1, 4))))

ClipColumn(col, lo, hi) == [i \in 1..Len(col) |-> Clip(col[i], lo, hi)]

ClipOutliers(col) == ClipColumn(col, LowerFence(col), UpperFence(col))

\* Mutant of ScaleAndClip: the outliers are clipped before the scaling.
ClipAndScale(col) == MinMaxScale(ClipOutliers(col))

\* One iteration of the loop of preprocess_data.  numeric_cols is taken
\* before anything is changed: CLOSE always, "Company Name" once an earlier
\* pass has encoded it, MA_5 once an earlier pass has added it.
ScaleAndClip(col) == ClipOutliers(MinMaxScale(col))

\* The frame once its CLOSE column has been imputed to closeImp: the
\* encoding, the MA_5 derivation, the scaling and the clipping.
Derive(df, closeImp) ==
    [ df EXCEPT
        !.nameDtype = "number",
        !.nameStr   = <<>>,
        !.nameNum   = IF df.nameDtype = "number"
                      THEN ScaleAndClip(Impute(df.nameNum))
                      ELSE [i \in 1..Len(df.nameStr) |->
                              RInt(LabelEncode(df.nameStr)[i])],
        !.close     = ScaleAndClip(closeImp),
        !.hasMA     = TRUE,
        !.ma5       = IF df.hasMA
                      THEN ScaleAndClip(RollingMean(closeImp))
                      ELSE RollingMean(closeImp),
        !.passes    = df.passes + 1,
        !.pre       = closeImp ]

PreprocessFrame(df) == Derive(df, Impute(df.close))

preprocess_data ==
    /\ \A i \in 1..Len(dfs) : dfs[i].passes < MaxPasses
    /\ dfs' = [i \in 1..Len(dfs) |-> PreprocessFrame(dfs[i])]
    /\ last' = Ok("preprocess_data")
    /\ decisions' = NoMapping
    /\ trades' = NoMapping
    /\ UNCHANGED <<stock_data_paths, models, skips, ncollect, rng, nanOk>>
    /\ UNCHANGED mainVars

---------------------------------------------------------------------------
(* build_models *)

HasNaN(col) == \E i \in 1..Len(col) : IsNaN(col[i])

\* Why RandomForestRegressor(...).fit(df[['MA_5']], df['CLOSE']) raises, or
\* "" when it fits: no MA_5 column, no rows, a NaN target, or a NaN feature
\* under a forest that rejects missing values.
FitError(df, acceptsNaN) ==
    IF ~df.hasMA THEN "KeyError"
    ELSE IF Len(df.close) = 0 THEN "ValueError"
    ELSE IF HasNaN(df.close) THEN "ValueError"
    ELSE IF ~acceptsNaN /\ HasNaN(df.ma5) THEN "ValueError"
    ELSE ""

\* The rows of a frame that fit() is given: all of them.
FitRows(df) == 1..Len(df.close)

\* A fitted forest: the frame it was fitted on and that frame's row count,
\* the rows given to fit() and their feature and target values.
Fit(df) ==
    [ src  |-> df.src,
      n    |-> Len(df.close),
      rows |-> FitRows(df),
      fitX |-> [i \in FitRows(df) |-> df.ma5[i]],
      fitY |-> [i \in FitRows(df) |-> df.close[i]] ]

FirstFailure(frames, acceptsNaN) ==
    LET bad == {i \in 1..Len(frames) : FitError(frames[i], acceptsNaN) # ""}
    IN  IF bad = {} THEN 0 ELSE CHOOSE i \in bad : \A j \in bad : i <= j

\* Where in the range of its training targets the seeded forest predicts.
PredLevels == << <<0, 1>>, <<19, 20>>, <<39, 40>> >>

\* Mutant of ForestOutcomes: a forest without random_state, drawn anew by
\* every fit.
UnseededForestOutcomes(drawn, n) ==
    IF n > 0 THEN 1..Len(PredLevels) ELSE {drawn}

\* The outcomes a build over n frames can have for the forests, `drawn`
\* being the outcome so far (0: none grown yet).  random_state=42 makes
\* the outcome a fixed one: the first fit reveals it, a later fit repeats it.
ForestOutcomes(drawn, n) ==
    IF drawn = 0 /\ n > 0 THEN 1..Len(PredLevels) ELSE {drawn}

\* self.models = [fit(df) for df in self.dfs]: the assignment happens only
\* when every fit returned.
BuildModels(frames) == [i \in 1..Len(frames) |-> Fit(frames[i])]

build_models ==
    LET k == FirstFailure(dfs, nanOk)
    IN  /\ IF k = 0
           THEN /\ models' = BuildModels(dfs)
                /\ rng' \in ForestOutcomes(rng, Len(dfs))
                /\ last' = Ok("build_models")
           ELSE /\ models' = models
                /\ rng' = rng
                /\ last' = Raised("build_models", FitError(dfs[k], nanOk))
        /\ decisions' = NoMapping
        /\ trades' = NoMapping
        /\ UNCHANGED <<stock_data_paths, dfs, skips, ncollect, nanOk>>
        /\ UNCHANGED mainVars

\* train_test_split(X, y, test_size=0.2, random_state=42) holds out
\* ceil(0.2 * n) of n rows (src/analysis.py); the rest is the training part.
TestSize(n) == (n + 4) \div 5

TrainSize(n) == n - TestSize(n)

---------------------------------------------------------------------------
(* The fitted forest as a predictor *)

\* model.predict: an average of training targets, so a value of their range;
\* which one is fixed by the seed and unknown here: the first build_models
\* that grows a forest draws it (rng), and it stays for the run.
Between(lo, hi, level) == RAdd(lo, RMul(level, RSub(hi, lo)))

\* The training targets of a model, as a column.
Targets(model) ==
    [i \in 1..Cardinality(model.rows) |->
        model.fitY[CHOOSE r \in model.rows :
                      Cardinality({q \in model.rows : q < r}) = i - 1]]

Predict(model, x, seed) ==
    Between(ColMin(Targets(model)), ColMax(Targets(model)), PredLevels[seed])

---------------------------------------------------------------------------
(* evaluate_models *)

\* Why the body of the loop of evaluate_models raises for a pair, or "".
EvaluateError(df, acceptsNaN) ==
    IF ~df.hasMA THEN "KeyError"
    ELSE IF Len(df.close) = 0 THEN "ValueError"
    ELSE IF ~acceptsNaN /\ HasNaN(df.ma5) THEN "ValueError"
    ELSE IF HasNaN(df.close) THEN "ValueError"
    ELSE ""

Min(a, b) == IF a <= b THEN a ELSE b

\* Mutant of evaluate_models: the evaluation uses the models up.
EvaluateConsumingModels ==
    /\ last' = [Ok("evaluate_models")
                   EXCEPT !.printed = Min(Len(dfs), Len(models))]
    /\ models' = <<>>
    /\ decisions' = NoMapping
    /\ trades' = NoMapping
    /\ UNCHANGED <<stock_data_paths, dfs, skips, ncollect, rng, nanOk>>
    /\ UNCHANGED mainVars

evaluate_models ==
    LET n   == Min(Len(dfs), Len(models))
        bad == {i \in 1..n : EvaluateError(dfs[i], nanOk) # ""}
        k   == IF bad = {} THEN 0 ELSE CHOOSE i \in bad : \A j \in bad : i <= j
    IN  /\ last' = IF k = 0
                   THEN [Ok("evaluate_models") EXCEPT !.printed = n]
                   ELSE [Raised("evaluate_models", EvaluateError(dfs[k], nanOk))
                            EXCEPT !.printed = k - 1]
        /\ decisions' = NoMapping
        /\ trades' = NoMapping
        /\ UNCHANGED <<stock_data_paths, dfs, models, skips, ncollect, rng,
                       nanOk>>
        /\ UNCHANGED mainVars

---------------------------------------------------------------------------
(* buy_or_sell *)

DefaultThreshold == <<1, 20>>

Thresholds == {DefaultThreshold, <<1, 4>>}

\* df["Company Name"].iloc[0] as a dict key.  A string before the column is
\* encoded, then its label code, then (once scaled) a float; every NaN read
\* from a frame is a key of its own, since NaN equals nothing.
Key(df, i) ==
    IF df.nameDtype = "object"
    THEN [kind |-> "name", s |-> df.nameStr[1], n |-> 0, d |-> 1]
    ELSE IF IsNaN(df.nameNum[1])
    THEN [kind |-> "nan", s |-> "", n |-> i, d |-> 0]
    ELSE [kind |-> "number", s |-> "", n |-> df.nameNum[1][1],
          d |-> df.nameNum[1][2]]

PriceChange(current, future) == RDiv(RSub(future, current), current)

\* Mutant of Decide: a strict comparison with the threshold.
DecideStrict(current, future, threshold) ==
    LET price_change == PriceChange(current, future)
    IN  IF RGt(RAbs(price_change), threshold)
        THEN (IF RGt(price_change, Zero) THEN "Buy" ELSE "Sell")
        ELSE "Hold"

Decide(current, future, threshold) ==
    LET price_change == PriceChange(current, future)
    IN  IF RGe(RAbs(price_change), threshold)
        THEN (IF RGt(price_change, Zero) THEN "Buy" ELSE "Sell")
        ELSE "Hold"

\* Why iteration i of the loop of buy_or_sell raises, or "".
DecisionError(frames, fitted, i) ==
    IF Len(frames[i].close) = 0 THEN "IndexError"
    ELSE IF i > Len(fitted) THEN "IndexError"
    ELSE IF ~frames[i].hasMA THEN "KeyError"
    ELSE ""

DecisionRow(df, model, threshold, seed) ==
    LET current_price == df.close[Len(df.close)]
        future_price  == Predict(model, df.ma5[Len(df.ma5)], seed)
    IN  [ CurrentPrice |-> current_price,
          FuturePrice  |-> future_price,
          PriceChange  |-> PriceChange(current_price, future_price),
          Decision     |-> Decide(current_price, future_price, threshold) ]

\* The dict built by the loop: a later frame with an equal key overwrites.
Decisions(frames, fitted, threshold, seed) ==
    LET keys == {Key(frames[i], i) : i \in 1..Len(frames)}
        lastOf(k) == CHOOSE i \in 1..Len(frames) :
                        /\ Key(frames[i], i) = k
                        /\ \A j \in 1..Len(frames) :
                              Key(frames[j], j) = k => j <= i
    IN  [k \in keys |->
            DecisionRow(frames[lastOf(k)], fitted[lastOf(k)], threshold, seed)]

FirstDecisionError(frames, fitted) ==
    LET bad == {i \in 1..Len(frames) : DecisionError(frames, fitted, i) # ""}
    IN  IF bad = {} THEN 0 ELSE CHOOSE i \in bad : \A j \in bad : i <= j

buy_or_sell ==
    \E threshold \in Thresholds :
        LET k == FirstDecisionError(dfs, models)
        IN  /\ IF k = 0
               THEN /\ decisions' = Decisions(dfs, models, threshold, rng)
                    /\ last' = [Ok("buy_or_sell")
                                   EXCEPT !.threshold = threshold]
               ELSE /\ decisions' = NoMapping
                    /\ last' = [Raised("buy_or_sell",
                                       DecisionError(dfs, models, k))
                                   EXCEPT !.threshold = threshold]
            /\ trades' = NoMapping
            /\ UNCHANGED <<stock_data_paths, dfs, models, skips, ncollect,
                           rng, nanOk>>
            /\ UNCHANGED mainVars

---------------------------------------------------------------------------
(* execute_trades *)

\* Mutant of Trades: Hold decisions are materialised too.
TradesKeepHold(decided) ==
    [k \in DOMAIN decided |->
        [ Action      |-> decided[k].Decision,
          Price       |-> decided[k].CurrentPrice,
          FuturePrice |-> decided[k].FuturePrice ]]

Trades(decided) ==
    LET traded == {k \in DOMAIN decided :
                      decided[k].Decision = "Buy" \/ decided[k].Decision = "Sell"}
    IN  [k \in traded |->
            [ Action      |-> decided[k].Decision,
              Price       |-> decided[k].CurrentPrice,
              FuturePrice |-> decided[k].FuturePrice ]]

execute_trades ==
    LET k == FirstDecisionError(dfs, models)
    IN  /\ IF k = 0
           THEN /\ decisions' = Decisions(dfs, models, DefaultThreshold, rng)
                /\ trades' = Trades(decisions')
                /\ last' = [Ok("execute_trades")
                               EXCEPT !.threshold = DefaultThreshold]
           ELSE /\ decisions' = NoMapping
                /\ trades' = NoMapping
                /\ last' = [Raised("execute_trades",
                                   DecisionError(dfs, models, k))
                               EXCEPT !.threshold = DefaultThreshold]
        /\ UNCHANGED <<stock_data_paths, dfs, models, skips, ncollect, rng,
                       nanOk>>
        /\ UNCHANGED mainVars

---------------------------------------------------------------------------
(* src/data_formating.py: CompanyDataProcessor *)

Symbols == {"INFY", "TCS"}

\* The columns merge_data reads from the first and from the second table.
Data1Columns ==
    {"SYMBOL", "SERIES", "OPEN", "HIGH", "LOW", "CLOSE", "LAST", "PREVCLOSE",
     "TOTTRDQTY", "TOTTRDVAL", "TIMESTAMP", "TOTALTRADES", "ISIN"}

Data2Columns ==
    {"Name", "Current Price", "S3", "S2", "S1", "Pivot", "R1", "R2", "R3"}

\* A CSV file: whether it exists, its header, and per data row the value of
\* its key column (SYMBOL or Name) and of one value column (CLOSE or Pivot).
Csv(columns, keys, values) ==
    [exists |-> TRUE, columns |-> columns, keys |-> keys, values |-> values]

Absent == [exists |-> FALSE, columns |-> {}, keys |-> <<>>, values |-> <<>>]

\* What the downloader can leave as equities.csv: nothing, one or two
\* companies, a symbol listed twice, a table lacking a column.
Data1Tables ==
    { Absent,
      Csv(Data1Columns, <<"INFY">>, <<10>>),
      Csv(Data1Columns, <<"INFY", "TCS">>, <<10, 20>>),
      Csv(Data1Columns, <<"TCS", "TCS">>, <<20, 30>>),
      Csv(Data1Columns \ {"ISIN"}, <<"INFY">>, <<10>>) }

\* What the scraper can leave as table.csv.
Data2Tables ==
    { Csv(Data2Columns, <<"INFY">>, <<11>>),
      Csv(Data2Columns, <<"TCS", "INFY">>, <<21, 11>>),
      Csv(Data2Columns \ {"Pivot"}, <<"INFY">>, <<11>>) }

\* load_csv: the dict of column lists; {} when the file cannot be opened and
\* when it has no data row (the keys are added row by row).
load_csv(file) ==
    IF file.exists /\ Len(file.keys) > 0 THEN file ELSE Absent

\* list.index(x): the first position of x.
Index(seq, x) ==
    CHOOSE i \in 1..Len(seq) : seq[i] = x /\ \A j \in 1..(i - 1) : seq[j] # x

\* A line of an output file: the header or a data row.
HeaderLine == [kind |-> "header", company |-> "", close |-> 0, pivot |-> 0]

\* merge_data: one merged row per symbol of data1 that is a Name of data2,
\* from the first row of each table that carries it.  A KeyError (a column
\* that is not there) is caught and ends the loop: as every column is read
\* for the first matching symbol, nothing has been merged by then.
merge_data(data1, data2) ==
    LET matched == {symbol \in {data1.keys[i] : i \in 1..Len(data1.keys)} :
                       \E j \in 1..Len(data2.keys) : data2.keys[j] = symbol}
        keyError == \/ "SYMBOL" \notin data1.columns
                    \/ "Name" \notin data2.columns
                    \/ ~(Data1Columns \subseteq data1.columns)
                    \/ ~(Data2Columns \subseteq data2.columns)
    IN  [symbol \in IF keyError THEN {} ELSE matched |->
            [ kind    |-> "row",
              company |-> symbol,
              close   |-> data1.values[Index(data1.keys, symbol)],
              pivot   |-> data2.values[Index(data2.keys, symbol)] ]]

NoFile == [exists |-> FALSE, lines |-> <<>>]

\* Mutant of save_to_csv: the header is written on every call.
SaveWithHeader(file, data) ==
    [exists |-> TRUE, lines |-> file.lines \o <<HeaderLine, data>>]

\* save_to_csv: append the row, after the header when the file is new.
save_to_csv(file, data) ==
    [ exists |-> TRUE,
      lines  |-> IF file.exists THEN Append(file.lines, data)
                 ELSE <<HeaderLine, data>> ]

\* Whether a symbol is in the SYMBOL column of the one table and in the Name
\* column of the other.
InBoth(symbol, data1, data2) ==
    /\ "SYMBOL" \in data1.columns
    /\ "Name" \in data2.columns
    /\ \E i \in 1..Len(data1.keys) : data1.keys[i] = symbol
    /\ \E j \in 1..Len(data2.keys) : data2.keys[j] = symbol

\* Whether the tables carry every column merge_data reads.
AllColumns(data1, data2) ==
    Data1Columns \subseteq data1.columns /\ Data2Columns \subseteq data2.columns

\* The output directory after merge_and_save over the two files.
Saved(out, file1, file2) ==
    [symbol \in Symbols |->
        IF symbol \in DOMAIN merge_data(load_csv(file1), load_csv(file2))
        THEN save_to_csv(out[symbol],
                 merge_data(load_csv(file1), load_csv(file2))[symbol])
        ELSE out[symbol]]

\* History: per symbol, the merge_and_save runs that found it in both
\* tables (both), and those among them whose tables had every column (full).
Counted(count, file1, file2) ==
    [symbol \in Symbols |->
        [ both |-> count[symbol].both +
                     (IF InBoth(symbol, load_csv(file1), load_csv(file2))
                      THEN 1 ELSE 0),
          full |-> count[symbol].full +
                     (IF /\ InBoth(symbol, load_csv(file1), load_csv(file2))
                         /\ AllColumns(load_csv(file1), load_csv(file2))
                      THEN 1 ELSE 0) ]]

---------------------------------------------------------------------------
(* src/main.py: the entry point *)

\* A thread: "initial" before start(), "download" / "tables" / "running"
\* while alive, "ended" after its target returned, "error" after its target
\* raised.
Alive == {"running", "download", "tables"}

\* Mutant of Joinable: join() returns although the thread is still alive.
JoinableOnceStarted(thread) == thread # "initial"

\* Thread.join() returns once the thread is no longer alive, whether its
\* target returned or raised.
Joinable(thread) == thread \in {"ended", "error"}

\* The state before main.py is launched for the first time.
MainStart ==
    /\ pc = "start_file"
    /\ file_thread = "initial"
    /\ html_copy_thread = "initial"
    /\ equities_csv = Absent
    /\ table_csv = Absent
    /\ files = [symbol \in Symbols |-> NoFile]
    /\ present = [symbol \in Symbols |-> [both |-> 0, full |-> 0]]
    /\ runs = 1

\* file_thread.start()
start_file ==
    /\ pc = "start_file"
    /\ file_thread' = "running"
    /\ pc' = "start_html"
    /\ UNCHANGED <<html_copy_thread, equities_csv, table_csv, files, present,
                   runs>>
    /\ UNCHANGED pipelineVars

\* html_copy_thread.start()
start_html ==
    /\ pc = "start_html"
    /\ html_copy_thread' = "download"
    /\ pc' = "join_file"
    /\ UNCHANGED <<file_thread, equities_csv, table_csv, files, present, runs>>
    /\ UNCHANGED pipelineVars

\* The target of file_thread: file() is called without its argument
\* path_dir, which raises TypeError in the thread.
file_thread_run ==
    /\ file_thread = "running"
    /\ file_thread' = "error"
    /\ UNCHANGED <<pc, html_copy_thread, equities_csv, table_csv, files,
                   present, runs>>
    /\ UNCHANGED pipelineVars

\* html_copy: download_webpage returns the page, or None after an error it
\* caught, and then save_tables_from_url has nothing more to do.
html_copy_download ==
    /\ html_copy_thread = "download"
    /\ html_copy_thread' \in {"tables", "ended"}
    /\ UNCHANGED <<pc, file_thread, equities_csv, table_csv, files, present,
                   runs>>
    /\ UNCHANGED pipelineVars

\* html_copy: the loop over the tables of the page writes table.csv when the
\* page has exactly one table that read_html can parse.
html_copy_tables ==
    /\ html_copy_thread = "tables"
    /\ table_csv' \in Data2Tables \cup {table_csv}
    /\ html_copy_thread' = "ended"
    /\ UNCHANGED <<pc, file_thread, equities_csv, files, present, runs>>
    /\ UNCHANGED pipelineVars

\* html_copy has no handler of its own: an exception that the methods of
\* WebTableCopier do not catch ends the thread.
html_copy_raises ==
    /\ html_copy_thread \in Alive
    /\ html_copy_thread' = "error"
    /\ UNCHANGED <<pc, file_thread, equities_csv, table_csv, files, present,
                   runs>>
    /\ UNCHANGED pipelineVars

\* file_thread.join()
join_file ==
    /\ pc = "join_file"
    /\ Joinable(file_thread)
    /\ pc' = "join_html"
    /\ UNCHANGED <<file_thread, html_copy_thread, equities_csv, table_csv,
                   files, present, runs>>
    /\ UNCHANGED pipelineVars

\* html_copy_thread.join()
join_html ==
    /\ pc = "join_html"
    /\ Joinable(html_copy_thread)
    /\ pc' = "download"
    /\ UNCHANGED <<file_thread, html_copy_thread, equities_csv, table_csv,
                   files, present, runs>>
    /\ UNCHANGED pipelineVars

\* path1 = file(OUTPUT_DIR) in the main thread: download_bhavcopy_data
\* returns the path of equities.csv (never None), or raises.
download ==
    /\ pc = "download"
    /\ \/ /\ equities_csv' \in Data1Tables
          /\ pc' = "merge"
       \/ /\ equities_csv' = equities_csv
          /\ pc' = "crashed"
    /\ UNCHANGED <<file_thread, html_copy_thread, table_csv, files, present,
                   runs>>
    /\ UNCHANGED pipelineVars

\* processor.merge_and_save(): every exception is caught inside.
merge_and_save ==
    /\ pc = "merge"
    /\ files' = Saved(files, equities_csv, table_csv)
    /\ present' = Counted(present, equities_csv, table_csv)
    /\ pc' = "gui"
    /\ UNCHANGED <<file_thread, html_copy_thread, equities_csv, table_csv,
                   runs>>
    /\ UNCHANGED pipelineVars

\* GUI.main(): StockAnalysisGUI.__init__ reads imp_items.find_csv_files,
\* which imp_items does not define: AttributeError ends the program.
gui ==
    /\ pc = "gui"
    /\ pc' = "crashed"
    /\ UNCHANGED <<file_thread, html_copy_thread, equities_csv, table_csv,
                   files, present, runs>>
    /\ UNCHANGED pipelineVars

\* main.py is launched again: new threads, the files are those on disk.
launch ==
    /\ pc = "crashed"
    /\ runs < MaxRuns
    /\ runs' = runs + 1
    /\ pc' = "start_file"
    /\ file_thread' = "initial"
    /\ html_copy_thread' = "initial"
    /\ UNCHANGED <<equities_csv, table_csv, files, present>>
    /\ UNCHANGED pipelineVars

---------------------------------------------------------------------------
(* One run of the pipeline on a fresh object *)

\* collect_data, preprocess_data, build_models and execute_trades called in
\* this order on StockAnalysis(paths), as a function of the paths, of the
\* installed forest (acceptsNaN) and of the outcome of its seed: the frames
\* and models the object ends with, whether every call returned, and the
\* decisions and trades of execute_trades (empty when a call raised).
Run(paths, acceptsNaN, seed) ==
    LET loaded    == CollectFrames(paths, Iterations(paths), <<>>)
        frames    == [i \in 1..Len(loaded) |-> PreprocessFrame(loaded[i])]
        built     == /\ FirstUnreadable(paths) = 0
                     /\ FirstFailure(frames, acceptsNaN) = 0
        fitted    == IF built THEN BuildModels(frames) ELSE <<>>
        completed == built /\ FirstDecisionError(frames, fitted) = 0
        decided   == IF completed
                     THEN Decisions(frames, fitted, DefaultThreshold, seed)
                     ELSE NoMapping
    IN  [ frames    |-> frames,
          models    |-> fitted,
          completed |-> completed,
          decisions |-> decided,
          trades    |-> Trades(decided) ]

---------------------------------------------------------------------------
(* The state machine *)

Init ==
    /\ stock_data_paths \in PathLists
    /\ dfs = <<>>
    /\ models = <<>>
    /\ decisions = NoMapping
    /\ trades = NoMapping
    /\ skips = <<>>
    /\ last = Ok("__init__")
    /\ ncollect = 0
    /\ rng = 0
    /\ nanOk \in BOOLEAN
    /\ MainStart

Next ==
    \/ collect_data
    \/ preprocess_data
    \/ build_models
    \/ evaluate_models
    \/ buy_or_sell
    \/ execute_trades

Spec == Init /\ [][Next]_vars

\* main.py, with no StockAnalysis object at work.
MainInit ==
    /\ MainStart
    /\ stock_data_paths = <<>>
    /\ dfs = <<>>
    /\ models = <<>>
    /\ decisions = NoMapping
    /\ trades = NoMapping
    /\ skips = <<>>
    /\ last = Ok("__init__")
    /\ ncollect = 0
    /\ rng = 0
    /\ nanOk = FALSE

MainNext ==
    \/ start_file
    \/ start_html
    \/ file_thread_run
    \/ html_copy_download
    \/ html_copy_tables
    \/ html_copy_raises
    \/ join_file
    \/ join_html
    \/ download
    \/ merge_and_save
    \/ gui
    \/ launch

MainSpec == MainInit /\ [][MainNext]_vars

---------------------------------------------------------------------------
(* Properties *)

RECURSIVE Repeat(_, _)
Repeat(s, n) == IF n = 0 THEN <<>> ELSE Repeat(s, n - 1) \o s

WellFormed(t) == RequiredHeaders \subseteq t.columns

AllReadable == \A i \in 1..Len(stock_data_paths) : stock_data_paths[i].readable

Indices(s) == [i \in 1..Len(s) |-> i]

LastClose(df) == df.close[Len(df.close)]

Returned(ops) == last.op \in ops /\ last.result = "ok"

\* C1: over readable paths, collect_data appends a frame for exactly the
\* paths whose table has all 21 required columns, in path order and without
\* gaps, and prints one skip message for every other path; a skipped path
\* stops nothing, so after n calls the frames are n copies of the
\* well-formed subsequence of paths.
C1_CollectKeepsWellFormedInOrder ==
    AllReadable =>
        /\ [i \in 1..Len(dfs) |-> dfs[i].src]
              = Repeat([i \in 1..Len(SelectSeq(stock_data_paths, WellFormed)) |->
                           SelectSeq(stock_data_paths, WellFormed)[i].name],
                       ncollect)
        /\ skips = Repeat(SelectSeq(Indices(stock_data_paths),
                                    LAMBDA i : ~WellFormed(stock_data_paths[i])),
                          ncollect)
        /\ last.op = "collect_data" => last.result = "ok"

\* A malformed path precedes a well-formed one, and the latter was loaded.
C1_Witness ==
    /\ last.op = "collect_data"
    /\ Len(stock_data_paths) = 2
    /\ AllReadable
    /\ ~WellFormed(stock_data_paths[1])
    /\ WellFormed(stock_data_paths[2])
    /\ Len(dfs) = 1
    /\ dfs[1].src = stock_data_paths[2].name
    /\ skips = <<1>>

\* The state after one run of collect_data, preprocess_data, build_models
\* and a call that returned the decisions.
PipelineRan ==
    /\ AllReadable
    /\ ncollect = 1
    /\ \A i \in 1..Len(dfs) : dfs[i].passes = 1
    /\ Len(models) = Len(dfs)
    /\ Returned({"buy_or_sell", "execute_trades"})

NameKey(name) == [kind |-> "name", s |-> name, n |-> 0, d |-> 1]

\* C2: for a batch of one company lacking a required column and N >= 1
\* well-formed companies with distinct names, the pipeline returns exactly
\* N decisions, keyed by the names of the well-formed companies.
C2_DecisionsKeyedByCompanyName ==
    ( /\ PipelineRan
      /\ Cardinality({i \in 1..Len(stock_data_paths) :
                         ~WellFormed(stock_data_paths[i])}) = 1
      /\ \A i, j \in 1..Len(stock_data_paths) :
            i # j => stock_data_paths[i].name # stock_data_paths[j].name )
    => /\ DOMAIN decisions =
             {NameKey(stock_data_paths[i].name) :
                 i \in {j \in 1..Len(stock_data_paths) :
                           WellFormed(stock_data_paths[j])}}
       /\ Cardinality(DOMAIN decisions) = Len(stock_data_paths) - 1

\* C3: a decision whose CurrentPrice is a defined non-zero value carries the
\* ratio (Future - Current) / Current and the action Buy when |ratio| >=
\* threshold and ratio > 0, Sell when |ratio| >= threshold and ratio <= 0,
\* Hold when |ratio| < threshold; its prices are the last CLOSE of a frame.
C3_ThresholdRule ==
    Returned({"buy_or_sell", "execute_trades"}) =>
        \A k \in DOMAIN decisions :
            LET row   == decisions[k]
                ratio == RDiv(RSub(row.FuturePrice, row.CurrentPrice),
                              row.CurrentPrice)
                big   == RLe(last.threshold, RAbs(ratio))
            IN  (IsFinite(row.CurrentPrice) /\ row.CurrentPrice # Zero) =>
                  /\ row.PriceChange = ratio
                  /\ (big /\ RLt(Zero, ratio)) => row.Decision = "Buy"
                  /\ (big /\ RLe(ratio, Zero)) => row.Decision = "Sell"
                  /\ RLt(RAbs(ratio), last.threshold) => row.Decision = "Hold"
                  /\ \E i \in 1..Len(dfs) :
                        /\ Key(dfs[i], i) = k
                        /\ row.CurrentPrice = LastClose(dfs[i])

\* A non-zero current price whose ratio is exactly the default threshold.
C3_Witness ==
    /\ Returned({"buy_or_sell"})
    /\ last.threshold = DefaultThreshold
    /\ \E k \in DOMAIN decisions :
          /\ decisions[k].CurrentPrice # Zero
          /\ decisions[k].PriceChange = RNeg(DefaultThreshold)
          /\ decisions[k].Decision = "Sell"

\* C4: a decision whose CurrentPrice is 0 is Hold, whatever the FuturePrice.
C4_ZeroPriceHolds ==
    Returned({"buy_or_sell", "execute_trades"}) =>
        \A k \in DOMAIN decisions :
            decisions[k].CurrentPrice = Zero => decisions[k].Decision = "Hold"

\* C5: a returning execute_trades leaves the frames and the models as they
\* were and returns a record for exactly the decisions that are Buy or Sell,
\* with the decision's action, current price and future price.
C5_TradesAreTheActionableDecisions ==
    [][ (last'.op = "execute_trades" /\ last'.result = "ok") =>
          /\ dfs' = dfs
          /\ models' = models
          /\ DOMAIN trades' =
                {k \in DOMAIN decisions' : decisions'[k].Decision # "Hold"}
          /\ \A k \in DOMAIN trades' :
                /\ trades'[k].Action = decisions'[k].Decision
                /\ trades'[k].Action \in {"Buy", "Sell"}
                /\ trades'[k].Price = decisions'[k].CurrentPrice
                /\ trades'[k].FuturePrice = decisions'[k].FuturePrice ]_vars

\* execute_trades returned over a Hold decision and an actionable one.
C5_Witness ==
    /\ Returned({"execute_trades"})
    /\ \E k \in DOMAIN decisions : decisions[k].Decision = "Hold"
    /\ \E k \in DOMAIN decisions : decisions[k].Decision = "Sell"
    /\ Cardinality(DOMAIN trades) = Cardinality(DOMAIN decisions) - 1

\* C6: a CLOSE column that is constant when it is scaled comes out of
\* preprocess_data as the constant 0, never as NaN.
C6_ConstantColumnScalesToZero ==
    \A i \in 1..Len(dfs) :
        ( /\ dfs[i].passes >= 1
          /\ Len(dfs[i].pre) > 0
          /\ ~HasNaN(dfs[i].pre)
          /\ ColMin(dfs[i].pre) = ColMax(dfs[i].pre) )
        => \A r \in 1..Len(dfs[i].close) : dfs[i].close[r] = Zero

AllPreprocessed == \A i \in 1..Len(dfs) : dfs[i].passes >= 1

\* C7: when build_models was the latest call (every loaded frame having been
\* preprocessed, the forest accepting NaN features), the model list is as long as the frame list and the model
\* at each index was fitted on the frame at that index.
C7_ModelsAlignedAfterBuild ==
    (last.op = "build_models" /\ AllPreprocessed /\ nanOk) =>
        /\ Len(models) = Len(dfs)
        /\ \A i \in 1..Len(models) :
              /\ models[i].src = dfs[i].src
              /\ \A r \in models[i].rows :
                    /\ models[i].fitX[r] = dfs[i].ma5[r]
                    /\ models[i].fitY[r] = dfs[i].close[r]

\* C8: after the preprocess_data pass over a loaded frame, MA_5 at 0-based
\* row i >= 4 is the mean of the imputed, not yet scaled CLOSE of rows
\* i-4..i, and MA_5 of the first four rows is undefined (NaN, not imputed).
C8_MA5IsTrailingMeanOfImputedClose ==
    \A f \in 1..Len(dfs) :
        dfs[f].passes = 1 =>
            /\ Len(dfs[f].ma5) = Len(dfs[f].pre)
            /\ \A i \in 0..(Len(dfs[f].ma5) - 1) :
                  IF i >= 4
                  THEN dfs[f].ma5[i + 1] =
                         RDiv(RAdd(dfs[f].pre[i - 3],
                              RAdd(dfs[f].pre[i - 2],
                              RAdd(dfs[f].pre[i - 1],
                              RAdd(dfs[f].pre[i], dfs[f].pre[i + 1])))),
                              <<5, 1>>)
                  ELSE IsNaN(dfs[f].ma5[i + 1])

\* CLOSE = [10,20,30,40,50,60] gives MA_5 = 30 at index 4 and 40 at index 5.
C8_Witness ==
    \E f \in 1..Len(dfs) :
        /\ dfs[f].passes = 1
        /\ dfs[f].pre = << <<10, 1>>, <<20, 1>>, <<30, 1>>, <<40, 1>>,
                           <<50, 1>>, <<60, 1>> >>
        /\ dfs[f].ma5[5] = <<30, 1>>
        /\ dfs[f].ma5[6] = <<40, 1>>
        /\ IsNaN(dfs[f].ma5[4])

\* C9: every model is fitted on the 80% training part of its frame's rows
\* only: of n rows, ceil(0.2 * n) are held out of the fit.
C9_FitOnTrainingPartitionOnly ==
    \A i \in 1..Len(models) :
        /\ models[i].rows \subseteq 1..models[i].n
        /\ Cardinality(models[i].rows) = TrainSize(models[i].n)

\* C10: when build_models runs over a preprocessed batch whose non-empty
\* frames can all be fitted, it returns, no model is fitted on a zero-row
\* frame, and every non-empty frame gets its model.
C10_EmptyCompanyExcluded ==
    ( /\ last.op = "build_models"
      /\ ncollect = 1
      /\ nanOk
      /\ \E i \in 1..Len(dfs) : Len(dfs[i].close) > 0
      /\ \A i \in 1..Len(dfs) :
            /\ dfs[i].passes = 1
            /\ Len(dfs[i].close) > 0 => ~HasNaN(dfs[i].close) )
    => /\ last.result = "ok"
       /\ \A i \in 1..Len(models) : models[i].n > 0
       /\ [i \in 1..Len(models) |-> models[i].src]
             = [i \in 1..Len(SelectSeq(dfs, LAMBDA df : Len(df.close) > 0)) |->
                   SelectSeq(dfs, LAMBDA df : Len(df.close) > 0)[i].src]

\* C11: a path whose file cannot be read is skipped: collect_data returns
\* normally and has loaded every readable well-formed path, those after the
\* unreadable one included.
C11_UnreadablePathIsSkipped ==
    ( /\ last.op = "collect_data"
      /\ \E i, j \in 1..Len(stock_data_paths) :
            /\ i < j
            /\ ~stock_data_paths[i].readable
            /\ stock_data_paths[j].readable
            /\ WellFormed(stock_data_paths[j]) ) =>
        /\ last.result = "ok"
        /\ [i \in 1..Len(dfs) |-> dfs[i].src]
              = Repeat([i \in 1..Len(SelectSeq(stock_data_paths,
                                   LAMBDA t : t.readable /\ WellFormed(t))) |->
                           SelectSeq(stock_data_paths,
                               LAMBDA t : t.readable /\ WellFormed(t))[i].name],
                       ncollect)

\* The rows a company's table can hold.
RowSets == {t.close : t \in {u \in Tables : WellFormed(u)}}

\* What a run derived for the company at position a: its preprocessed frame
\* (imputed, scaled and clipped values), its model, and the entries found
\* under its key in the returned decisions and trades.
DerivedFor(a, frames, fitted, decided, traded) ==
    [ frame    |-> frames[a],
      model    |-> IF a <= Len(fitted) THEN <<fitted[a]>> ELSE <<>>,
      decision |-> IF Key(frames[a], a) \in DOMAIN decided
                   THEN <<decided[Key(frames[a], a)]>> ELSE <<>>,
      trade    |-> IF Key(frames[a], a) \in DOMAIN traded
                   THEN <<traded[Key(frames[a], a)]>> ELSE <<>> ]

\* C12: company isolation.  After a complete run over two well-formed
\* companies, what was derived for either company A is what a run derives
\* for it over any batch that differs only in the rows of the other company.
C12_CompanyIsolation ==
    ( /\ PipelineRan
      /\ Returned({"execute_trades"})
      /\ Len(stock_data_paths) = 2
      /\ WellFormed(stock_data_paths[1]) /\ WellFormed(stock_data_paths[2])
      /\ stock_data_paths[1].name # stock_data_paths[2].name )
    => \A a \in 1..2 : \A rows \in RowSets :
          DerivedFor(a, dfs, models, decisions, trades)
            = DerivedFor(a,
                Run([stock_data_paths EXCEPT ![3 - a].close = rows],
                    nanOk, rng).frames,
                Run([stock_data_paths EXCEPT ![3 - a].close = rows],
                    nanOk, rng).models,
                Run([stock_data_paths EXCEPT ![3 - a].close = rows],
                    nanOk, rng).decisions,
                Run([stock_data_paths EXCEPT ![3 - a].close = rows],
                    nanOk, rng).trades)

C14_EvaluateChangesNothing ==
    [][ last'.op = "evaluate_models" =>
          /\ dfs' = dfs
          /\ models' = models
          /\ FirstDecisionError(dfs', models') = FirstDecisionError(dfs, models)
          /\ FirstDecisionError(dfs, models) = 0 =>
                \A threshold \in Thresholds :
                    Decisions(dfs', models', threshold, rng')
                      = Decisions(dfs, models, threshold, rng) ]_vars

\* evaluate_models returned after printing an error for two fitted models.
C14_Witness ==
    /\ Returned({"evaluate_models"})
    /\ last.printed = 2
    /\ Len(models) = 2
    /\ FirstDecisionError(dfs, models) = 0

\* The table a frame was read from.
TableOf(df) == CHOOSE t \in Tables : t.name = df.src

\* C15: a frame that went through preprocess_data once carries the steps in
\* the order imputation, encoding, MA_5, scaling, clipping: its "Company
\* Name" is the label code, its MA_5 is the rolling mean of the imputed and
\* not yet scaled CLOSE, and its CLOSE is the imputed column scaled and then
\* clipped to Q1 - 1.5 IQR and Q3 + 1.5 IQR of the scaled column.
C15_ClipAfterScaleOnScaledBounds ==
    \A f \in 1..Len(dfs) :
        dfs[f].passes = 1 =>
            LET raw     == TableOf(dfs[f]).close
                imputed == [i \in 1..Len(raw) |->
                              IF IsNaN(raw[i]) THEN Median(raw) ELSE raw[i]]
                scaled  == [i \in 1..Len(raw) |->
                              RDiv(RSub(imputed[i], ColMin(imputed)),
                                   RSub(ColMax(imputed), ColMin(imputed)))]
                iqr     == RSub(Quantile(scaled, 3, 4), Quantile(scaled, 1, 4))
                lower   == RSub(Quantile(scaled, 1, 4), RMul(<<3, 2>>, iqr))
                upper   == RAdd(Quantile(scaled, 3, 4), RMul(<<3, 2>>, iqr))
            IN  /\ dfs[f].nameNum = [i \in 1..Len(raw) |-> Zero]
                /\ dfs[f].ma5 = RollingMean(imputed)
                /\ dfs[f].close = [i \in 1..Len(raw) |->
                                      Clip(scaled[i], lower, upper)]

\* FLUX, CLOSE = [10, NaN, 12, 13, 100, 12]: imputed with the median 12,
\* scaled to [0, 1/45, 1/45, 1/30, 1, 1/45], then clipped to the fences
\* 7/720 and 31/720 of the scaled column (those of the raw column, 10.875
\* and 13.875, would clip nothing after the scaling).
C15_Witness ==
    \E f \in 1..Len(dfs) :
        /\ dfs[f].passes = 1
        /\ dfs[f].src = "FLUX"
        /\ dfs[f].pre[2] = <<12, 1>>
        /\ dfs[f].close = << <<7, 720>>, <<1, 45>>, <<1, 45>>, <<1, 30>>,
                             <<31, 720>>, <<1, 45>> >>

\* C16: no model is fitted on a row whose MA_5 is undefined: the rows given
\* to fit() all carry a defined feature value.
C16_FitSkipsUndefinedMA5 ==
    \A i \in 1..Len(models) :
        \A r \in models[i].rows : ~IsNaN(models[i].fitX[r])

InUnitInterval(col) ==
    \A i \in 1..Len(col) :
        IsNaN(col[i]) \/ (RLe(Zero, col[i]) /\ RLe(col[i], RInt(1)))

\* C17: in a preprocessed frame every defined value of every numeric column,
\* the derived MA_5 and the encoded "Company Name" included, lies in [0,1].
C17_AllNumericFieldsScaled ==
    \A f \in 1..Len(dfs) :
        dfs[f].passes >= 1 =>
            /\ InUnitInterval(dfs[f].close)
            /\ InUnitInterval(dfs[f].nameNum)
            /\ InUnitInterval(dfs[f].ma5)

Rows(file) == SelectSeq(file.lines, LAMBDA line : line.kind = "row")

Headers(file) == SelectSeq(file.lines, LAMBDA line : line.kind = "header")

=============================================================================
